---- MODULE Spec2Model ----
(***************************************************************************)
(* Model of the in-memory tag index service, pkg/tindex/inmem.go:          *)
(* the map of tag lines to journal descriptors, its save/load protocol     *)
(* (tindex.dat / tindex.bak), the start-up consistency check and the       *)
(* Init / Shutdown / GetOrCreateJournal / GetJournals operations executed  *)
(* by concurrent callers under the service mutex.                          *)
(***************************************************************************)
EXTENDS Integers, Sequences, FiniteSets, TLC

\* ---------------------------------------------------------------- bounds
NumProcs == 2        \* concurrent callers
MaxCalls == 3        \* API calls issued in one behaviour
MaxIds == 2          \* journal ids newSrc() may hand out in one behaviour

Procs == 1..NumProcs

\* ------------------------------------------------------- tags (pkg tag)
\* A tag is a key/value pair; Bad is a token the tag parser rejects.
T1 == [k |-> 1, v |-> 1]
T2 == [k |-> 2, v |-> 1]
Bad == [k |-> 0, v |-> 0]

\* Raw tag strings handed to GetOrCreateJournal, as token sequences.
TagStrings == { <<>>, <<Bad>>, <<T1, T2>>, <<T2, T1>> }

\* tag.Parse: an error on a malformed token, else the set of tags.
Parse(s) ==
  IF \E i \in DOMAIN s : s[i] = Bad
    THEN [err |-> TRUE, tags |-> {}]
    ELSE [err |-> FALSE, tags |-> {s[i] : i \in DOMAIN s}]

\* tag.Set.Line: the tags ordered by key.
RECURSIVE Line(_)
Line(tags) ==
  IF tags = {} THEN <<>>
  ELSE LET t == CHOOSE t \in tags : \A u \in tags : t.k <= u.k
       IN <<t>> \o Line(tags \ {t})

\* tag.Set.IsEmpty
IsEmpty(tags) == tags = {}

\* ------------------------------------------------------ journal ids
\* Ids found in a snapshot written by an earlier run of the program.
OldIds == {1, 2}
\* Ids newSrc() hands out in this run.
NewIds == 3..(2 + MaxIds)
Ids == OldIds \cup NewIds
NoSrc == 0

\* ------------------------------------------------------ files
EmptyMap == [k \in {} |-> NoSrc]
NoMap == [k \in {} |-> [tags |-> {}, Src |-> NoSrc]]
Absent == [exists |-> FALSE, valid |-> FALSE, data |-> EmptyMap]
Garbage == [exists |-> TRUE, valid |-> FALSE, data |-> EmptyMap]
File(data) == [exists |-> TRUE, valid |-> TRUE, data |-> data]

\* tindex.dat as an earlier run of the program can have left it: missing,
\* cut short by a failed write, or a snapshot of an index.
InitialFiles ==
  { Absent, Garbage, File([k \in {<<T1>>} |-> 1]) }

\* Snapshots that json.Unmarshal and tag.Parse accept; the key <<T2, T1>>
\* parses to {T1, T2}, whose line is <<T1, T2>>.
ParseableFiles ==
  { File([k \in {<<T1>>} |-> 1]), File([k \in {<<T2, T1>>} |-> 1]) }

\* ------------------------------------------------------ map helpers
\* tagsDesc{tags, Src}
Desc(tags, src) == [tags |-> tags, Src |-> src]

\* ims.tmap[line] = td
Insert(m, line, td) ==
  [k \in DOMAIN m \cup {line} |-> IF k = line THEN td ELSE m[k]]

DeleteNothing(m, line) == m

\* delete(ims.tmap, line)
Delete(m, line) == [k \in DOMAIN m \ {line} |-> m[k]]

MarshalKeysOnly(m) == [k \in DOMAIN m |-> NoSrc]

\* json.Marshal(ims.tmap): only the exported field Src is written.
Marshal(m) == [k \in DOMAIN m |-> m[k].Src]

\* json.Unmarshal(data, &ims.tmap): the decoded records are stored into the
\* existing map; a decoded descriptor has no tags yet.
Unmarshal(m, data) ==
  [k \in DOMAIN m \cup DOMAIN data |->
     IF k \in DOMAIN data THEN Desc({}, data[k]) ELSE m[k]]

\* The journal ids the index refers to (km in checkConsistency).
Srcs(m) == {m[k].Src : k \in DOMAIN m}

\* ------------------------------------------------------ saveStateUnsafe
\* The outcomes of one save of map m with files d (tindex.dat) and
\* b (tindex.bak): the error returned and the files left behind.
saveStateUnsafe(m, d, b, dns) ==
  IF dns THEN {[err |-> "nil", dat |-> d, bak |-> b]}
  ELSE
    LET d1 == IF d.exists THEN Absent ELSE d
        b1 == IF d.exists THEN d ELSE b
    IN  (IF d.exists THEN {[err |-> "rename", dat |-> d, bak |-> b]} ELSE {})
        \cup { [err |-> "nil", dat |-> File(Marshal(m)), bak |-> b1],
               [err |-> "write", dat |-> Absent, bak |-> b1],
               [err |-> "write", dat |-> Garbage, bak |-> b1] }

\* ------------------------------------------------------ loadState
\* The parse loop over the loaded map: every key is parsed in map order and
\* the loop stops at the first key that does not parse.
ParseAllNone(m) == m

ParseAll(m) == [k \in DOMAIN m |-> Desc(Parse(k).tags, m[k].Src)]

ParseSome(m, done_, f) ==
  [k \in DOMAIN m |->
     IF k \in done_ \cup {f} THEN Desc(Parse(k).tags, m[k].Src) ELSE m[k]]

loadState(m, d) ==
  IF ~d.exists THEN {[err |-> "nil", tmap |-> m]}
  ELSE {[err |-> "read", tmap |-> m]} \cup
       (IF ~d.valid THEN {[err |-> "unmarshal", tmap |-> m]}
        ELSE LET m1 == Unmarshal(m, d.data)
                 bad == {k \in DOMAIN m1 : Parse(k).err}
             IN IF bad = {} THEN {[err |-> "nil", tmap |-> ParseAll(m1)]}
                ELSE { [err |-> "parse", tmap |-> ParseSome(m1, P, f)] :
                         <<P, f>> \in (SUBSET (DOMAIN m1 \ bad)) \X bad })

\* ------------------------------------------------------ checkConsistency
\* The loop over the backend's listing: a listed id that is not in km sets
\* fail, a listed id that is in km is deleted from km.
RECURSIVE CheckFail(_, _)
CheckFail(km, lst) ==
  IF lst = <<>> THEN FALSE
  ELSE IF Head(lst) \notin km THEN TRUE
  ELSE CheckFail(km \ {Head(lst)}, Tail(lst))

\* Listings the journal controller may return.
Listings ==
  { <<>> } \cup { <<a>> : a \in {1, 3} }
           \cup { <<a, b>> : <<a, b>> \in {1, 3} \X {1, 3} }

\* ------------------------------------------------------ GetJournals scan
\* Source selectors: one that does not compile, one matching every tag set,
\* one matching the tag sets that hold T2.
Selectors == {"bad", "all", "t2"}

\* lql.BuildTagsExpFuncBySource: the error, or the predicate tef.
Compiles(sel) == sel # "bad"
tef(sel, tags) == IF sel = "all" THEN TRUE ELSE T2 \in tags

\* The orders in which a range over the map may visit its keys.
Orders(S) ==
  {o \in [1..Cardinality(S) -> S] : \A i, j \in DOMAIN o : i # j => o[i] # o[j]}

HasRoomOffByOne(res, maxSize) == Cardinality(DOMAIN res) <= maxSize

\* if len(res) < maxSize
HasRoom(res, maxSize) == Cardinality(DOMAIN res) < maxSize

StopsEarlyAlways(checkAll) == TRUE

\* else if !checkAll { break }
StopsEarly(checkAll) == ~checkAll

\* The loop of GetJournals over the map m visited in the given order.
RECURSIVE Scan(_, _, _, _, _, _, _)
Scan(m, order, sel, maxSize, checkAll, res, count) ==
  IF order = <<>> THEN [res |-> res, count |-> count]
  ELSE LET d == m[Head(order)]
       IN IF tef(sel, d.tags)
            THEN IF HasRoom(res, maxSize)
                   THEN Scan(m, Tail(order), sel, maxSize, checkAll,
                             [k \in DOMAIN res \cup {Line(d.tags)} |->
                                IF k = Line(d.tags) THEN d.Src ELSE res[k]],
                             count + 1)
                 ELSE IF StopsEarly(checkAll)
                   THEN [res |-> res, count |-> count + 1]
                 ELSE Scan(m, Tail(order), sel, maxSize, checkAll, res, count + 1)
          ELSE Scan(m, Tail(order), sel, maxSize, checkAll, res, count)

\* The largest maxSize a scan is given in ScanSpec.
MaxResults == 2

\* The indexes scanned in ScanSpec: any set of the three lines over T1 and
\* T2, each with its tags and an id of its own.
ScanLines == { <<T1>>, <<T2>>, <<T1, T2>> }
ScanIndexes ==
  { [l \in S |-> Desc({l[i] : i \in DOMAIN l},
                      IF Len(l) = 2 THEN 3 ELSE l[1].k)] :
      S \in SUBSET ScanLines }

\* The arguments of the scan in ScanSpec.
ScanArgs ==
  { [tags |-> <<>>, sel |-> sl, maxSize |-> n, checkAll |-> c] :
      sl \in Selectors \ {"bad"}, n \in 0..MaxResults, c \in BOOLEAN }

\* The GetJournals calls issued: selector, maxSize, checkAll.
GjArgs ==
  { [sel |-> "bad", maxSize |-> 1, checkAll |-> FALSE],
    [sel |-> "t2", maxSize |-> 1, checkAll |-> FALSE] }

\* ------------------------------------------------------ state
VARIABLES
  tmap,        \* ims.tmap: tag line -> tagsDesc
  done,        \* ims.done
  lock,        \* ims.lock is held
  dat,         \* the file tindex.dat
  bak,         \* the file tindex.bak
  doNotSave,   \* ims.Config.DoNotSave
  nextId,      \* the next id newSrc() returns
  pc,          \* where each caller is in its operation
  arg,         \* the arguments of each caller's operation
  ret,         \* what the last operation to return has returned
  td,          \* GetOrCreateJournal: Src of the descriptor being created
  knwnJrnls,   \* checkConsistency: the listing taken from the backend
  calls,       \* number of API calls issued so far
  \* history of the behaviour, read by the properties only
  era,         \* "open" | "closed" (Shutdown returned, no Init since) | "reopened"
  callEra,     \* the era in which each caller's operation was invoked
  initOk,      \* the last Init returned nil and no Init was invoked since
  lastSaved,   \* the snapshot written by the last save that returned nil
  before,      \* the map when the caller's GetOrCreateJournal took the lock
  served,      \* <<line, id, caller>> returned by GetOrCreateJournal since the last Init
  inserted,    \* <<line, id>> inserted into the map since the last Init
  rolledBack,  \* ids of inserted descriptors removed after a failed save
  reported     \* <<line, id, op>> returned while the last Init had succeeded

vars == <<tmap, done, lock, dat, bak, doNotSave, nextId, pc, arg, ret, td,
          knwnJrnls, calls, era, callEra, initOk, lastSaved, before, served,
          inserted, rolledBack, reported>>

NoArg == [tags |-> <<>>, sel |-> "", maxSize |-> 0, checkAll |-> FALSE]
NoRet ==
  [era |-> "", op |-> "", err |-> "", src |-> NoSrc, res |-> EmptyMap,
   count |-> 0]
Result(op, err, src) == [NoRet EXCEPT !.op = op, !.err = err, !.src = src]

\* NewInmemServiceWithConfig: an empty map, done = false, the lock free.
\* NewInmemService: everything but the content of the directory.
Fresh ==
  /\ tmap = NoMap
  /\ done = FALSE
  /\ lock = FALSE
  /\ bak = Absent
  /\ doNotSave \in BOOLEAN
  /\ nextId = 3
  /\ pc = [p \in Procs |-> "idle"]
  /\ arg = [p \in Procs |-> NoArg]
  /\ ret = NoRet
  /\ td = [p \in Procs |-> NoSrc]
  /\ knwnJrnls = <<>>
  /\ calls = 0
  /\ era = "open"
  /\ callEra = [p \in Procs |-> "open"]
  /\ initOk = FALSE
  /\ lastSaved = Absent
  /\ before = [p \in Procs |-> NoMap]
  /\ served = {}
  /\ inserted = {}
  /\ rolledBack = {}
  /\ reported = {}

Init == Fresh /\ dat \in InitialFiles

\* The service started on a snapshot somebody else wrote: every key parses,
\* one of them is not the canonical line of its tags.
LoadInit == Fresh /\ dat \in ParseableFiles

\* A caller invokes an operation.
Invoke(p, first, a) ==
  /\ pc[p] = "idle"
  /\ calls < MaxCalls
  /\ calls' = calls + 1
  /\ pc' = [pc EXCEPT ![p] = first]
  /\ arg' = [arg EXCEPT ![p] = a]
  /\ callEra' = [callEra EXCEPT ![p] = era]
  /\ UNCHANGED reported

\* The <<line, id, op>> a successful return r of caller p hands out.
Handed(p, r) ==
  IF r.err # "nil" THEN {}
  ELSE IF r.op = "GetOrCreateJournal"
    THEN IF Parse(arg[p].tags).err THEN {}
         ELSE {<<Line(Parse(arg[p].tags).tags), r.src, "goc">>}
  ELSE IF r.op = "GetJournals"
    THEN {<<l, r.res[l], "gj">> : l \in DOMAIN r.res}
  ELSE {}

\* A caller's operation returns r.
Return(p, r) ==
  /\ pc' = [pc EXCEPT ![p] = "idle"]
  /\ ret' = [r EXCEPT !.era = callEra[p]]
  /\ arg' = [arg EXCEPT ![p] = NoArg]
  /\ reported' = IF initOk THEN reported \cup Handed(p, r) ELSE reported

\* A caller moves on inside its operation.
Goto(p, l) ==
  /\ pc' = [pc EXCEPT ![p] = l]
  /\ UNCHANGED <<ret, arg, reported>>

\* The snapshot a save that returned nil has written.
Saved(o) == IF o.err = "nil" /\ ~doNotSave THEN o.dat ELSE lastSaved

\* ------------------------------------------------------ GetOrCreateJournal
\* td, ok := ims.tmap[tag.Line(tags)]: the raw string is used as the key.
RawKnown(m, tags) == tags \in DOMAIN m

KnownNever(m, line) == FALSE

\* td2, ok := ims.tmap[tgs.Line()]
Known(m, line) == line \in DOMAIN m

CanLockAlways(l) == TRUE

\* ims.lock.Lock() goes through when the mutex is free.
CanLock(l) == ~l

IsDoneNever(d) == FALSE

\* if ims.done, in GetOrCreateJournal
IsDone(d) == d

\* if ims.done, in GetJournals
GjIsDone(d) == d

ShutdownFlagUnset == FALSE

\* ims.done = true, in Shutdown
ShutdownFlag == TRUE

RejectEmptyNever(tgs) == FALSE

\* if tgs.IsEmpty(), in GetOrCreateJournal
RejectEmpty(tgs) == IsEmpty(tgs)

newSrcRestarts == nextId - 2

\* newSrc(): a fresh journal id.
newSrc == nextId

GocPending == {q \in Procs : pc[q] \in {"goc_lock", "goc_find"}}

GocCall(p, tags) ==
  /\ nextId + Cardinality(GocPending) <= 2 + MaxIds
  /\ Invoke(p, "goc_lock", [NoArg EXCEPT !.tags = tags])
  /\ UNCHANGED <<tmap, done, lock, dat, bak, doNotSave, nextId, ret, td,
                 knwnJrnls, era, initOk, lastSaved, before, served, inserted,
                 rolledBack>>

\* ims.lock.Lock(); if ims.done { ims.lock.Unlock(); return "", error }
GocLock(p) ==
  /\ pc[p] = "goc_lock"
  /\ CanLock(lock)
  /\ IF IsDone(done)
       THEN /\ Return(p, Result("GetOrCreateJournal", "closed", NoSrc))
            /\ UNCHANGED <<lock, before>>
       ELSE /\ Goto(p, "goc_find")
            /\ lock' = TRUE
            /\ before' = [before EXCEPT ![p] = tmap]
  /\ UNCHANGED <<tmap, done, dat, bak, doNotSave, nextId, td, knwnJrnls,
                 calls, era, callEra, initOk, lastSaved, served, inserted,
                 rolledBack>>

\* The entry is there: res := td.Src; ims.lock.Unlock(); return res, nil
GocHit(p, key) ==
  /\ Return(p, Result("GetOrCreateJournal", "nil", tmap[key].Src))
  /\ lock' = FALSE
  /\ served' = IF Parse(arg[p].tags).err THEN served
               ELSE served \cup {<<Line(Parse(arg[p].tags).tags), tmap[key].Src, p>>}
  /\ before' = [before EXCEPT ![p] = NoMap]
  /\ UNCHANGED <<tmap, nextId, td, inserted>>

\* Lines 97-111: the two lookups, the parse and the insert.
GocFind(p) ==
  /\ pc[p] = "goc_find"
  /\ LET tags == arg[p].tags
         pr == Parse(tags)
         line == Line(pr.tags)
     IN IF RawKnown(tmap, tags) THEN GocHit(p, tags)
        ELSE IF pr.err
          THEN /\ Return(p, Result("GetOrCreateJournal", "format", NoSrc))
               /\ lock' = FALSE
               /\ before' = [before EXCEPT ![p] = NoMap]
               /\ UNCHANGED <<tmap, nextId, td, served, inserted>>
        ELSE IF RejectEmpty(pr.tags)
          THEN \* returns without ims.lock.Unlock()
               /\ Return(p, Result("GetOrCreateJournal", "empty", NoSrc))
               /\ before' = [before EXCEPT ![p] = NoMap]
               /\ UNCHANGED <<lock, tmap, nextId, td, served, inserted>>
        ELSE IF Known(tmap, line) THEN GocHit(p, line)
        ELSE /\ Goto(p, "goc_save")
             /\ tmap' = Insert(tmap, line, Desc(pr.tags, newSrc))
             /\ td' = [td EXCEPT ![p] = newSrc]
             /\ nextId' = nextId + 1
             /\ inserted' = inserted \cup {<<line, newSrc>>}
             /\ UNCHANGED <<lock, served, before>>
  /\ UNCHANGED <<done, dat, bak, doNotSave, knwnJrnls, calls, era,
                 callEra, initOk, lastSaved, rolledBack>>

\* Lines 112-126: the save of the new entry, its removal when the save fails.
GocSave(p) ==
  /\ pc[p] = "goc_save"
  /\ LET line == Line(Parse(arg[p].tags).tags)
     IN \E o \in saveStateUnsafe(tmap, dat, bak, doNotSave) :
          /\ dat' = o.dat
          /\ bak' = o.bak
          /\ lastSaved' = Saved(o)
          /\ IF o.err # "nil"
               THEN /\ tmap' = Delete(tmap, line)
                    /\ rolledBack' = rolledBack \cup {td[p]}
                    /\ Return(p, Result("GetOrCreateJournal", o.err, NoSrc))
                    /\ UNCHANGED served
               ELSE /\ Return(p, Result("GetOrCreateJournal", "nil", td[p]))
                    /\ served' = served \cup {<<line, td[p], p>>}
                    /\ UNCHANGED <<tmap, rolledBack>>
  /\ lock' = FALSE
  /\ td' = [td EXCEPT ![p] = NoSrc]
  /\ before' = [before EXCEPT ![p] = NoMap]
  /\ UNCHANGED <<done, doNotSave, nextId, knwnJrnls, calls, era, callEra,
                 initOk, inserted>>

\* ------------------------------------------------------ GetJournals
GjCall(p, a) ==
  /\ Invoke(p, "gj_compile",
            [NoArg EXCEPT !.sel = a.sel, !.maxSize = a.maxSize,
                          !.checkAll = a.checkAll])
  /\ UNCHANGED <<tmap, done, lock, dat, bak, doNotSave, nextId, ret, td,
                 knwnJrnls, era, initOk, lastSaved, before, served, inserted,
                 rolledBack>>

\* tef, err := lql.BuildTagsExpFuncBySource(srcCond), before the lock is taken
GjCompile(p) ==
  /\ pc[p] = "gj_compile"
  /\ IF Compiles(arg[p].sel)
       THEN Goto(p, "gj_lock")
       ELSE Return(p, Result("GetJournals", "compile", NoSrc))
  /\ UNCHANGED <<tmap, done, lock, dat, bak, doNotSave, nextId, td,
                 knwnJrnls, calls, era, callEra, initOk, lastSaved, before,
                 served, inserted, rolledBack>>

GjLock(p) ==
  /\ pc[p] = "gj_lock"
  /\ CanLock(lock)
  /\ IF GjIsDone(done)
       THEN /\ Return(p, Result("GetJournals", "closed", NoSrc))
            /\ UNCHANGED lock
       ELSE /\ Goto(p, "gj_scan")
            /\ lock' = TRUE
  /\ UNCHANGED <<tmap, done, dat, bak, doNotSave, nextId, td, knwnJrnls,
                 calls, era, callEra, initOk, lastSaved, before, served,
                 inserted, rolledBack>>

GjScan(p) ==
  /\ pc[p] = "gj_scan"
  /\ \E order \in Orders(DOMAIN tmap) :
       LET r == Scan(tmap, order, arg[p].sel, arg[p].maxSize, arg[p].checkAll,
                     EmptyMap, 0)
       IN Return(p, [Result("GetJournals", "nil", NoSrc)
                       EXCEPT !.res = r.res, !.count = r.count])
  /\ lock' = FALSE
  /\ UNCHANGED <<tmap, done, dat, bak, doNotSave, nextId, td, knwnJrnls,
                 calls, era, callEra, initOk, lastSaved, before, served,
                 inserted, rolledBack>>

\* ------------------------------------------------------ Shutdown
ShutCall(p) ==
  /\ Invoke(p, "shut_lock", NoArg)
  /\ UNCHANGED <<tmap, done, lock, dat, bak, doNotSave, nextId, ret, td,
                 knwnJrnls, era, initOk, lastSaved, before, served, inserted,
                 rolledBack>>

\* ims.lock.Lock(); defer ims.lock.Unlock(); ims.done = true
ShutLock(p) ==
  /\ pc[p] = "shut_lock"
  /\ CanLock(lock)
  /\ done' = ShutdownFlag
  /\ era' = "closed"
  /\ Return(p, Result("Shutdown", "nil", NoSrc))
  /\ UNCHANGED <<tmap, lock, dat, bak, doNotSave, nextId, td, knwnJrnls,
                 calls, callEra, initOk, lastSaved, before, served, inserted,
                 rolledBack>>

\* ------------------------------------------------------ Init
\* ims.done = false, without the lock
InitCall(p) ==
  /\ Invoke(p, "init_load", NoArg)
  /\ done' = FALSE
  /\ era' = IF era = "closed" THEN "reopened" ELSE era
  /\ initOk' = FALSE
  /\ served' = {}
  /\ inserted' = {}
  /\ UNCHANGED <<tmap, lock, dat, bak, doNotSave, nextId, ret, td, knwnJrnls,
                 lastSaved, before, rolledBack>>

\* err := ims.loadState(); if err != nil { return err }
InitLoad(p) ==
  /\ pc[p] = "init_load"
  /\ \E o \in loadState(tmap, dat) :
       /\ tmap' = o.tmap
       /\ IF o.err = "nil" THEN Goto(p, "init_list")
          ELSE Return(p, Result("Init", o.err, NoSrc))
  /\ UNCHANGED <<done, lock, dat, bak, doNotSave, nextId, td, knwnJrnls,
                 calls, era, callEra, initOk, lastSaved, before, served,
                 inserted, rolledBack>>

\* knwnJrnls := ims.Journals.GetJournals(ctx)
InitList(p) ==
  /\ pc[p] = "init_list"
  /\ \E lst \in Listings : knwnJrnls' = lst
  /\ Goto(p, "init_check")
  /\ UNCHANGED <<tmap, done, lock, dat, bak, doNotSave, nextId, td,
                 calls, era, callEra, initOk, lastSaved, before, served,
                 inserted, rolledBack>>

\* Lines 199-221: the listing is compared with the ids of the index.
InitCheck(p) ==
  /\ pc[p] = "init_check"
  /\ IF CheckFail(Srcs(tmap), knwnJrnls)
       THEN /\ Return(p, Result("Init", "inconsistent", NoSrc))
            /\ knwnJrnls' = <<>>
       ELSE /\ Goto(p, "init_save")
            /\ UNCHANGED knwnJrnls
  /\ UNCHANGED <<tmap, done, lock, dat, bak, doNotSave, nextId, td,
                 calls, era, callEra, initOk, lastSaved, before, served,
                 inserted, rolledBack>>

\* return ims.saveStateUnsafe()
InitSave(p) ==
  /\ pc[p] = "init_save"
  /\ \E o \in saveStateUnsafe(tmap, dat, bak, doNotSave) :
       /\ dat' = o.dat
       /\ bak' = o.bak
       /\ lastSaved' = Saved(o)
       /\ initOk' = (o.err = "nil")
       /\ Return(p, Result("Init", o.err, NoSrc))
  /\ knwnJrnls' = <<>>
  /\ UNCHANGED <<tmap, done, lock, doNotSave, nextId, td,
                 calls, era, callEra, before, served, inserted, rolledBack>>

\* ------------------------------------------------------ specification
\* Init is run by the component lifecycle while no other call is in
\* progress, and no call is issued while it runs.
Quiet == \A q \in Procs : pc[q] = "idle"
InitRunning ==
  \E q \in Procs : pc[q] \in {"init_load", "init_list", "init_check", "init_save"}

Next ==
  \E p \in Procs :
    \/ (~InitRunning /\ \E tags \in TagStrings : GocCall(p, tags))
    \/ GocLock(p)
    \/ GocFind(p)
    \/ GocSave(p)
    \/ (~InitRunning /\ \E a \in GjArgs : GjCall(p, a))
    \/ GjCompile(p)
    \/ GjLock(p)
    \/ GjScan(p)
    \/ (~InitRunning /\ ShutCall(p))
    \/ ShutLock(p)
    \/ (Quiet /\ InitCall(p))
    \/ InitLoad(p)
    \/ InitList(p)
    \/ InitCheck(p)
    \/ InitSave(p)

Spec == Init /\ [][Next]_vars

\* Init called while other operations run: nothing in the code keeps a caller
\* from it. One Init runs at a time.
RaceNext ==
  \E p \in Procs :
    \/ \E tags \in TagStrings : GocCall(p, tags)
    \/ GocLock(p)
    \/ GocFind(p)
    \/ GocSave(p)
    \/ \E a \in GjArgs : GjCall(p, a)
    \/ GjCompile(p)
    \/ GjLock(p)
    \/ GjScan(p)
    \/ ShutCall(p)
    \/ ShutLock(p)
    \/ (~InitRunning /\ InitCall(p))
    \/ InitLoad(p)
    \/ InitList(p)
    \/ InitCheck(p)
    \/ InitSave(p)

RaceSpec == Init /\ [][RaceNext]_vars

\* GetJournals alone: one caller stands at the loop, holding the lock, over
\* any index of ScanIndexes and with any arguments of ScanArgs.
ScanInit ==
  /\ tmap \in ScanIndexes
  /\ done = FALSE
  /\ lock = TRUE
  /\ dat = Absent
  /\ bak = Absent
  /\ doNotSave = TRUE
  /\ nextId = 3
  /\ \E p \in Procs :
       /\ pc = [q \in Procs |-> IF q = p THEN "gj_scan" ELSE "idle"]
       /\ \E a \in ScanArgs : arg = [q \in Procs |-> IF q = p THEN a ELSE NoArg]
  /\ ret = NoRet
  /\ td = [p \in Procs |-> NoSrc]
  /\ knwnJrnls = <<>>
  /\ calls = 1
  /\ era = "open"
  /\ callEra = [p \in Procs |-> "open"]
  /\ initOk = TRUE
  /\ lastSaved = Absent
  /\ before = [p \in Procs |-> NoMap]
  /\ served = {}
  /\ inserted = {}
  /\ rolledBack = {}
  /\ reported = {}

ScanNext == \E p \in Procs : GjScan(p)

ScanSpec == ScanInit /\ [][ScanNext]_vars

LoadSpec == LoadInit /\ [][Next]_vars

\* ------------------------------------------------------ type invariant
TypeOK ==
  /\ reported \subseteq (DOMAIN tmap) \X Ids \X {"goc", "gj"}
  /\ done \in BOOLEAN /\ lock \in BOOLEAN /\ doNotSave \in BOOLEAN
  /\ nextId \in 3..(3 + MaxIds)
  /\ calls \in 0..MaxCalls
  /\ era \in {"open", "closed", "reopened"}
  /\ \A k \in DOMAIN tmap : tmap[k].Src \in Ids

\* ------------------------------------------------------ properties
InGoc(p) == pc[p] \in {"goc_lock", "goc_find", "goc_save"}
InGj(p) == pc[p] \in {"gj_compile", "gj_lock", "gj_scan"}
LinesOf(S) == {x[1] : x \in S}
IdsOf(S, l) == {x[2] : x \in {y \in S : y[1] = l}}

\* C1: the GetOrCreateJournal calls made since the last Init, under every
\* interleaving, are served a single journal id per canonical line, that id
\* is the one of the line's index entry, and at most one entry inserted for
\* the line is kept.
C1_OneEntryPerLine ==
  \A l \in LinesOf(served \cup inserted) :
    /\ Cardinality(IdsOf(served, l)) <= 1
    /\ Cardinality(IdsOf(inserted, l) \ rolledBack) <= 1
    /\ \A i \in IdsOf(served, l) : l \in DOMAIN tmap /\ tmap[l].Src = i

\* Two callers were served the same id of the one entry created for the line.
C1_Witness ==
  /\ initOk
  /\ Cardinality(inserted) = 1
  /\ \E x, y \in served :
       x[3] # y[3] /\ x[1] = y[1] /\ x[2] = y[2] /\ <<x[1], x[2]>> \in inserted

\* C2: the lock is released on every return path, so the lock is held only
\* while some caller is inside a locked section.
C2_LockReleased ==
  lock => \E p \in Procs : pc[p] \in {"goc_find", "goc_save", "gj_scan"}

\* C3: when the save of a new entry fails the map is again what it was when
\* the call took the lock, and no entry of the map ever carries the id of a
\* removed entry.
C3_Rollback ==
  [][ /\ \A p \in Procs :
           (pc[p] = "goc_save" /\ pc'[p] = "idle" /\ ret'.err # "nil")
             => tmap' = before[p]
      /\ \A k \in DOMAIN tmap' : tmap'[k].Src \notin rolledBack' ]_vars

\* A creation was rolled back and a later call created the same line anew.
C3_Witness ==
  \E l \in LinesOf(inserted) :
    /\ IdsOf(inserted, l) \cap rolledBack # {}
    /\ l \in DOMAIN tmap
    /\ tmap[l].Src \in IdsOf(served, l)
    /\ tmap[l].Src \notin rolledBack

\* C4: after a successful Init with persistence enabled, whenever the lock
\* is free every entry of the map has its record in tindex.dat.
C4_IndexDurable ==
  (initOk /\ ~doNotSave /\ ~lock) =>
     \A k \in DOMAIN tmap :
       dat.valid /\ k \in DOMAIN dat.data /\ dat.data[k] = tmap[k].Src

\* C5: the snapshot written by the last successful save is intact in
\* tindex.dat or in tindex.bak.
C5_SnapshotSurvives ==
  lastSaved.exists => (dat = lastSaved \/ bak = lastSaved)

\* The error a call invoked on a closed service is expected to return.
ClosedErr(p) ==
  IF InGj(p) /\ ~Compiles(arg[p].sel) THEN "compile" ELSE "closed"

C8_OnlyAfterInit ==
  [][ \A p \in Procs :
        ((InGoc(p) \/ InGj(p)) /\ pc'[p] = "idle" /\ ret'.err = "nil")
          => initOk ]_vars

C10_HitIsPure ==
  [][ \A p \in Procs :
        LET pr == Parse(arg[p].tags)
        IN (pc[p] = "goc_find" /\ pc'[p] # "goc_find" /\ ~pr.err
              /\ Line(pr.tags) \in DOMAIN tmap)
             => /\ pc'[p] = "idle"
                /\ ret'.err = "nil"
                /\ ret'.src = tmap[Line(pr.tags)].Src
                /\ UNCHANGED <<tmap, dat, bak>> ]_vars

\* Two calls for one line: one entry, one persisted record, the same id.
C10_Witness ==
  /\ ~doNotSave
  /\ Cardinality(inserted) = 1
  /\ Cardinality(DOMAIN tmap) = 1
  /\ dat = File(Marshal(tmap))
  /\ ret.op = "GetOrCreateJournal" /\ ret.err = "nil"
  /\ Cardinality({x \in served : x[2] = ret.src}) = 2

\* C11: a GetOrCreateJournal whose tag string is not a key of the map and
\* is malformed or canonicalizes to the empty tag set fails in the step that
\* parses it, with InvalidTagFormat or EmptySourceTags, and that step changes
\* neither the map nor the files nor the id generator.
C11_RejectIsPure ==
  [][ \A p \in Procs :
        LET pr == Parse(arg[p].tags)
        IN (pc[p] = "goc_find" /\ pc'[p] # "goc_find"
              /\ arg[p].tags \notin DOMAIN tmap /\ (pr.err \/ pr.tags = {}))
             => /\ pc'[p] = "idle"
                /\ ret'.err = (IF pr.err THEN "format" ELSE "empty")
                /\ ret'.src = NoSrc
                /\ UNCHANGED <<tmap, dat, bak, nextId>> ]_vars

\* The empty tag string was rejected while the index held a saved entry.
C11_Witness ==
  /\ ret.op = "GetOrCreateJournal" /\ ret.err = "empty"
  /\ DOMAIN tmap # {}
  /\ dat = File([k \in DOMAIN tmap |-> tmap[k].Src])

\* C12: in every reachable state, each key of the map is the canonical line
\* of the tag set its entry holds.
C12_KeysCanonical ==
  \A k \in DOMAIN tmap : k = Line(tmap[k].tags)

\* C13: the journal id of a line never changes: all the ids that successful
\* GetOrCreateJournal and GetJournals calls on a service whose Init succeeded
\* have ever reported for one canonical line are the same id, and it is the
\* id the map holds for that line.
C13_IdIsStable ==
  \A x \in reported :
    /\ \A y \in reported : x[1] = y[1] => x[2] = y[2]
    /\ x[1] \in DOMAIN tmap /\ tmap[x[1]].Src = x[2]

\* A GetOrCreateJournal and a later GetJournals reported the same line.
C13_Witness ==
  /\ ret.op = "GetJournals" /\ ret.err = "nil"
  /\ \E x, y \in reported : x[1] = y[1] /\ x[3] = "goc" /\ y[3] = "gj"

\* C14: GetJournals never returns an entry whose creation is still in
\* flight or is rolled back later: when a scan returns, no creation stands
\* between its insert and its save, every id in the result is the Src of an
\* entry of the map that no caller is creating, and no id a GetJournals has
\* reported is ever rolled back.
C14_NoDirtyRead ==
  [][ /\ \A p \in Procs :
           (pc[p] = "gj_scan" /\ pc'[p] = "idle")
             => /\ \A q \in Procs : pc[q] # "goc_save"
                /\ \A l \in DOMAIN ret'.res :
                     /\ ret'.res[l] \notin {td[q] : q \in Procs}
                     /\ ret'.res[l] \notin rolledBack
                     /\ \E k \in DOMAIN tmap : tmap[k].Src = ret'.res[l]
      /\ \A x \in reported' : x[3] = "gj" => x[2] \notin rolledBack' ]_vars

\* A scan returned an entry of an index on which a creation was rolled back.
C14_Witness ==
  /\ ret.op = "GetJournals" /\ ret.err = "nil"
  /\ DOMAIN ret.res # {}
  /\ rolledBack # {}

\* The keys of the entries of m whose tags the selector accepts.
Matching(m, sel) == {k \in DOMAIN m : tef(sel, m[k].tags)}
Min(a, b) == IF a < b THEN a ELSE b

\* C15: with checkAll, whatever the order of the iteration, GetJournals
\* returns the exact number of matching entries as the count, a mapping of
\* min(maxSize, count) keys, each the canonical line of a matching entry
\* mapped to its journal id, and the map is not modified.
C15_ScanAll ==
  [][ \A p \in Procs :
        (pc[p] = "gj_scan" /\ pc'[p] = "idle" /\ arg[p].checkAll)
          => LET M == Matching(tmap, arg[p].sel)
             IN /\ ret'.err = "nil"
                /\ ret'.count = Cardinality(M)
                /\ Cardinality(DOMAIN ret'.res)
                     = Min(arg[p].maxSize, Cardinality(M))
                /\ \A l \in DOMAIN ret'.res :
                     \E k \in M : /\ Line(tmap[k].tags) = l
                                  /\ tmap[k].Src = ret'.res[l]
                /\ tmap' = tmap ]_vars

\* Three entries matched, one was returned: only a scan that went on after
\* the mapping was full counts three.
C15_Witness ==
  /\ ret.op = "GetJournals" /\ ret.err = "nil"
  /\ Cardinality(DOMAIN tmap) = 3
  /\ ret.count = 3
  /\ Cardinality(DOMAIN ret.res) = 1

\* C16: without checkAll, whatever the order of the iteration, the mapping
\* has min(maxSize, m) keys for m matching entries, the count is at least
\* the size of the mapping and at most m, and the scan stops at the first
\* match that finds the mapping full, so the count is at most maxSize + 1.
C16_ScanSome ==
  [][ \A p \in Procs :
        (pc[p] = "gj_scan" /\ pc'[p] = "idle" /\ ~arg[p].checkAll)
          => LET m == Cardinality(Matching(tmap, arg[p].sel))
                 size == Cardinality(DOMAIN ret'.res)
             IN /\ ret'.err = "nil"
                /\ size = Min(arg[p].maxSize, m)
                /\ size <= ret'.count
                /\ ret'.count <= m
                /\ ret'.count <= arg[p].maxSize + 1
                /\ tmap' = tmap ]_vars

\* Both entries hold T2, so both match either selector; the count of one with
\* an empty mapping is the scan with maxSize 0 that stopped at its first match.
C16_Witness ==
  /\ ret.op = "GetJournals" /\ ret.err = "nil"
  /\ DOMAIN tmap = { <<T2>>, <<T1, T2>> }
  /\ ret.count = 1
  /\ ret.res = EmptyMap

\* C17: for every index the service reaches, a save that succeeds followed
\* by a load of the file it wrote into an empty map succeeds and yields the
\* same lines with the same tag sets and the same journal ids.
C17_RoundTrip ==
  \A o \in saveStateUnsafe(tmap, dat, bak, FALSE) :
    o.err = "nil"
      => /\ \E l \in loadState(NoMap, o.dat) : l.err = "nil"
         /\ \A l \in loadState(NoMap, o.dat) : l.err = "nil" => l.tmap = tmap

\* The file the service wrote holds a loaded and a created entry, and loading
\* it into an empty map gives the index back.
C17_Witness ==
  /\ ~doNotSave
  /\ Cardinality(DOMAIN tmap) = 2
  /\ \E x \in inserted : x[1] \in DOMAIN tmap /\ tmap[x[1]].Src = x[2]
  /\ dat.exists /\ dat.valid
  /\ \E l \in loadState(NoMap, dat) : l.err = "nil" /\ l.tmap = tmap

\* The places of an operation at which its caller holds ims.lock; the step
\* from "shut_lock" takes the lock, sets done and releases the lock.
LockedPcs == {"goc_find", "goc_save", "gj_scan", "shut_lock"}

\* C18: every step that changes the map, the files or the done flag is taken
\* by a caller that holds the lock, the steps of Init included.
C18_AllUnderLock ==
  [][ \A p \in Procs :
        (pc'[p] # pc[p] /\ <<tmap, dat, bak, done>>' # <<tmap, dat, bak, done>>)
          => pc[p] \in LockedPcs ]_vars

\* C19: the comparison with the listing changes neither the map nor the
\* files and ends Init, without a save, only with DataInconsistency; the
\* save that follows keeps the map, is attempted whatever the files hold
\* (an existing tindex.dat is renamed to tindex.bak), and when Init returns
\* nil with persistence enabled tindex.dat holds exactly the lines and ids of
\* the map, stale entries included.
C19_InitKeepsAndSaves ==
  [][ \A p \in Procs :
        /\ (pc[p] = "init_check" /\ pc'[p] # "init_check")
             => /\ UNCHANGED <<tmap, dat, bak>>
                /\ pc'[p] = "idle" => ret'.err = "inconsistent"
        /\ (pc[p] = "init_save" /\ pc'[p] # "init_save")
             => /\ tmap' = tmap
                /\ pc'[p] = "idle" /\ ret'.op = "Init"
                /\ initOk' <=> ret'.err = "nil"
                /\ (ret'.err = "nil" /\ ~doNotSave)
                     => /\ dat' = File([k \in DOMAIN tmap |-> tmap[k].Src])
                        /\ dat.exists => bak' = dat
                /\ (ret'.err = "nil" /\ doNotSave) => UNCHANGED <<dat, bak>> ]_vars

\* The comparison passed although the entry with id 1 has no journal in the
\* listing; its Init is about to save.
C19_Witness ==
  \E p \in Procs :
    /\ pc[p] = "init_save"
    /\ ~doNotSave
    /\ \E k \in DOMAIN tmap :
         /\ tmap[k].Src = 1
         /\ \A i \in DOMAIN knwnJrnls : knwnJrnls[i] # 1

\* C20: no two entries of the map with different keys hold the same journal
\* id, and no entry holds the id of a creation that was rolled back.
C20_IdsNotShared ==
  /\ \A k1, k2 \in DOMAIN tmap : k1 # k2 => tmap[k1].Src # tmap[k2].Src
  /\ \A k \in DOMAIN tmap : tmap[k].Src \notin rolledBack

\* A loaded entry and an entry created after a rolled-back creation.
C20_Witness ==
  /\ Cardinality(DOMAIN tmap) = 2
  /\ rolledBack # {}
  /\ \E k \in DOMAIN tmap : tmap[k].Src \in OldIds
  /\ \E x \in inserted : x[1] \in DOMAIN tmap /\ tmap[x[1]].Src = x[2]
  /\ \A q \in Procs : pc[q] = "idle"

====
